---------------------------- MODULE Spec2Model ----------------------------
(***************************************************************************)
(* atlas-quicklook: the light-curve reduction engine                       *)
(*   atlas_ql/utils/timeseries.py  phase_fold, bin_phase_folded_data       *)
(*   atlas_ql/utils/io.py          read_lightcurve, read_bin_lightcurve    *)
(*   atlas_ql/utils/bls.py         load_catalog, get_catalog, ...          *)
(*                                                                         *)
(* Floats are modelled as exact rationals <<n, d>> with d > 0 in lowest    *)
(* terms, extended by the IEEE specials <<0,0>> (NaN), <<1,0>> (+inf) and  *)
(* <<-1,0>> (-inf).  numpy semantics are kept where they differ from       *)
(* Python's: a numpy division by zero yields inf/NaN, a Python scalar      *)
(* division by zero raises ZeroDivisionError.  Arithmetic is exact, but    *)
(* for the one addition inside the float modulo, which rounds to MantBits  *)
(* significant bits: float64 keeps 53, and a remainder too small for them  *)
(* is lost there, which is how a phase of exactly 1.0 comes about.         *)
(* A square root is kept symbolically: the surd <<s, q>> stands for        *)
(* s * sqrt(q), s in {1, -1}, q a float as above.                          *)
(***************************************************************************)
EXTENDS Integers, Sequences, FiniteSets, TLC

VARIABLES
    args,       \* arguments of the pending bin_phase_folded_data call
    result,     \* what that call returned or raised ("pending" before it)
    world,      \* reduce: the files on disk and the rows of the BLS result files
    rargs,      \* reduce: the arguments every read_bin_lightcurve call of the sweep gets
    todo,       \* reduce: the sources the sweep still has to process
    out,        \* reduce: per processed source, what read_bin_lightcurve returned
    raised,     \* reduce: the exception that ended the sweep, or "none"
    bin_log,    \* reduce: per processed source and band, the period/epoch passed to the binner and used by the fold
    _catalog,   \* bls.py's module-level cache: None or the built catalog
    pc,         \* catalog readers: each thread's position
    local,      \* catalog readers: each thread's local data frame / return value
    loads       \* catalog readers: how many times load_catalog has run

vars == <<args, result, world, rargs, todo, out, raised, bin_log, _catalog, pc, local, loads>>

\* an optional float argument: Python's None, or a value
None == [none |-> TRUE, v |-> <<0, 0>>]
Some(x) == [none |-> FALSE, v |-> x]

----------------------------------------------------------------------------
(* Float arithmetic                                                        *)

NaN == <<0, 0>>
PosInf == <<1, 0>>
NegInf == <<-1, 0>>

Abs(n) == IF n < 0 THEN -n ELSE n
Sgn(n) == IF n < 0 THEN -1 ELSE IF n > 0 THEN 1 ELSE 0

RECURSIVE Gcd(_, _)
Gcd(a, b) == IF b = 0 THEN a ELSE Gcd(b, a % b)

\* the rational n/d in lowest terms, d # 0
Q(n, d) ==
    LET g == Gcd(Abs(n), Abs(d))
        s == IF d < 0 THEN -1 ELSE 1
    IN  <<(s * n) \div g, (s * d) \div g>>

I(n) == <<n, 1>>

isfinite(x) == x[2] # 0
isnan(x) == x = NaN
FSign(x) == Sgn(x[1])

FNeg(x) == <<-x[1], x[2]>>

FAdd(x, y) ==
    IF isnan(x) \/ isnan(y) THEN NaN
    ELSE IF ~isfinite(x) THEN (IF ~isfinite(y) /\ y # x THEN NaN ELSE x)
    ELSE IF ~isfinite(y) THEN y
    ELSE Q(x[1] * y[2] + y[1] * x[2], x[2] * y[2])

FSub(x, y) == FAdd(x, FNeg(y))

FMul(x, y) ==
    IF isnan(x) \/ isnan(y) THEN NaN
    ELSE IF ~isfinite(x) \/ ~isfinite(y)
         THEN (IF FSign(x) * FSign(y) = 0 THEN NaN ELSE <<FSign(x) * FSign(y), 0>>)
    ELSE Q(x[1] * y[1], x[2] * y[2])

\* numpy true division: x/0 is +-inf, 0/0 is NaN (a RuntimeWarning, no exception)
FDiv(x, y) ==
    IF isnan(x) \/ isnan(y) THEN NaN
    ELSE IF ~isfinite(x) THEN (IF ~isfinite(y) THEN NaN
                               ELSE <<FSign(x) * (IF FSign(y) < 0 THEN -1 ELSE 1), 0>>)
    ELSE IF ~isfinite(y) THEN I(0)
    ELSE IF y[1] = 0 THEN (IF x[1] = 0 THEN NaN ELSE <<FSign(x), 0>>)
    ELSE Q(x[1] * y[2], x[2] * y[1])

\* comparisons: every comparison with NaN is False
FLt(x, y) ==
    IF isnan(x) \/ isnan(y) THEN FALSE
    ELSE IF ~isfinite(x) \/ ~isfinite(y)
         THEN (IF ~isfinite(x) /\ ~isfinite(y) THEN x[1] < y[1]
               ELSE IF ~isfinite(x) THEN x[1] < 0 ELSE y[1] > 0)
    ELSE x[1] * y[2] < y[1] * x[2]
FGe(x, y) == ~isnan(x) /\ ~isnan(y) /\ ~FLt(x, y)
FGt(x, y) == FLt(y, x)

MantBits == 6      \* significant bits a float keeps (float64: 53)

RECURSIVE Pow2(_)
Pow2(k) == IF k = 0 THEN 1 ELSE 2 * Pow2(k - 1)

\* the non-negative rational n/d rounded to an integer, ties to even
RoundHalfEven(n, d) ==
    LET q == n \div d
        r == 2 * (n % d)
    IN  IF r < d THEN q
        ELSE IF r > d THEN q + 1
        ELSE IF q % 2 = 0 THEN q ELSE q + 1

\* round to nearest, ties to even: the nearest m * 2^e with m < 2^MantBits
fl(x) ==
    IF ~isfinite(x) \/ x[1] = 0 THEN x
    ELSE LET n  == Abs(x[1])
             d  == x[2]
             lo == Pow2(MantBits - 1)
             RECURSIVE up(_)
             up(k) == IF n * Pow2(k) >= d * lo THEN k ELSE up(k + 1)
             RECURSIVE down(_)
             down(k) == IF n < d * Pow2(k) * 2 * lo THEN k ELSE down(k + 1)
         IN  IF n >= d * lo
             THEN Q(Sgn(x[1]) * RoundHalfEven(n, d * Pow2(down(0))) * Pow2(down(0)), 1)
             ELSE Q(Sgn(x[1]) * RoundHalfEven(n * Pow2(up(0)), d), Pow2(up(0)))

\* C's fmod for finite x and finite p # 0: the remainder of the division
\* truncated towards zero; it has the sign of x and is exact
fmod(x, p) ==
    LET q == Q(x[1] * p[2], x[2] * p[1])
    IN  FSub(x, FMul(p, I(Sgn(q[1]) * (Abs(q[1]) \div q[2]))))

\* numpy's float % (npy_remainder): mod = fmod(x, p); a non-zero mod whose
\* sign differs from the divisor's is fixed up by mod += p, a float addition
\* that rounds; x % 0 is NaN
FMod(x, p) ==
    IF ~isfinite(x) \/ isnan(p) \/ p[1] = 0 THEN NaN
    ELSE IF ~isfinite(p) THEN (IF x[1] # 0 /\ FSign(x) # FSign(p) THEN p ELSE x)
    ELSE LET mod == fmod(x, p)
         IN  IF mod[1] # 0 /\ FSign(mod) # FSign(p) THEN fl(FAdd(mod, p)) ELSE mod

\* surds: <<s, q>> is s * sqrt(q)
SurdNaN == <<1, NaN>>
sqrt(x) == IF isnan(x) \/ FLt(x, I(0)) THEN SurdNaN ELSE <<1, x>>
SurdIsNaN(e) == isnan(e[2])
SurdDiv(e, f) ==
    IF SurdIsNaN(e) \/ isnan(f) THEN SurdNaN
    ELSE LET q == FDiv(e[2], FMul(f, f))
         IN  IF isnan(q) THEN SurdNaN
             ELSE <<e[1] * (IF FSign(f) < 0 THEN -1 ELSE 1), q>>

----------------------------------------------------------------------------
(* Python values                                                           *)

\* a str is its sequence of characters; a bool keeps its truth in s
Str(chars) == [t |-> "str", s |-> chars]
PyTrue == [t |-> "bool", s |-> <<"1">>]
PyFalse == [t |-> "bool", s |-> <<>>]
Truthy(x) == x.s # <<>>

UpperCase == <<"A","B","C","D","E","F","G","H","I","J","K","L","M",
               "N","O","P","Q","R","S","T","U","V","W","X","Y","Z">>
LowerCase == <<"a","b","c","d","e","f","g","h","i","j","k","l","m",
               "n","o","p","q","r","s","t","u","v","w","x","y","z">>
lower_char(c) ==
    IF \E i \in DOMAIN UpperCase : UpperCase[i] = c
    THEN LowerCase[CHOOSE i \in DOMAIN UpperCase : UpperCase[i] = c]
    ELSE c
\* str.lower()
lower(chars) == [i \in DOMAIN chars |-> lower_char(chars[i])]

Raise(kind) == [status |-> "raise", error |-> kind]

\* the exceptions of timeseries.py, under the names the design gives them
NoValidData == "ValueError: No valid flux values for normalization"
InvalidNormalization == "ValueError: Unknown normalization method"
InvalidCycleCount == "ValueError: num_cycles must be 1, 2, or 3"
\* exceptions raised by Python and numpy themselves
ZeroSizeMin == "ValueError: zero-size array to reduction operation minimum"
ZeroDivisionError == "ZeroDivisionError: float division by zero"
AttributeError == "AttributeError: 'bool' object has no attribute 'lower'"

----------------------------------------------------------------------------
(* timeseries: phase_fold                                                  *)

RECURSIVE SeqMin(_, _)
SeqMin(s, k) ==
    IF k = 1 THEN s[1]
    ELSE LET m == SeqMin(s, k - 1) IN IF FLt(s[k], m) THEN s[k] ELSE m

\* np.min(time): ValueError on a zero-size array
np_min(s) == SeqMin(s, Len(s))

\* the epoch phase_fold folds with (lines 55-56); needs Len(time) > 0 when None
fold_epoch(time, reference_epoch) ==
    IF reference_epoch.none THEN np_min(time) ELSE reference_epoch.v

\* 0.5 * period_derivative / period : scalar arithmetic, before any array is
\* touched.  period is [v, np]: a Python number raises ZeroDivisionError on a
\* zero divisor, a numpy float64 (a catalog cell) gives inf/NaN.
fold_rate(period, period_derivative) ==
    FDiv(FMul(Q(1, 2), period_derivative), period.v)

phase_of(t, period, period_derivative, epoch) ==
    LET dt == FSub(t, epoch)
        corr == FMul(fold_rate(period, period_derivative), FMul(dt, dt))
    IN  FDiv(FMod(FSub(dt, corr), period.v), period.v)

phase_fold(time, period, period_derivative, reference_epoch) ==
    IF reference_epoch.none /\ Len(time) = 0
    THEN Raise(ZeroSizeMin)
    ELSE IF ~period.np /\ period.v = I(0)
    THEN Raise(ZeroDivisionError)
    ELSE [status |-> "ok",
          epoch  |-> fold_epoch(time, reference_epoch),
          phases |-> [k \in DOMAIN time |->
                        phase_of(time[k], period, period_derivative,
                                 fold_epoch(time, reference_epoch))]]

----------------------------------------------------------------------------
(* timeseries: bin_phase_folded_data                                       *)

\* np.linspace(0, 1, num_bins + 1)[i], i = 0..num_bins
bin_edges(num_bins, i) == Q(i, num_bins)
\* 0.5 * (bin_edges[:-1] + bin_edges[1:])[i], i = 0..num_bins-1
bin_centers(num_bins, i) ==
    FMul(Q(1, 2), FAdd(bin_edges(num_bins, i), bin_edges(num_bins, i + 1)))

\* the mask with its upper edge closed
bin_mask_closed(phases, num_bins, i) ==
    {k \in DOMAIN phases : /\ FGe(phases[k], bin_edges(num_bins, i))
                           /\ ~FGt(phases[k], bin_edges(num_bins, i + 1))
                           /\ ~isnan(phases[k])}

\* mask = (phases >= phase_min) & (phases < phase_max), as the set of indices
bin_mask(phases, num_bins, i) ==
    {k \in DOMAIN phases : /\ FGe(phases[k], bin_edges(num_bins, i))
                           /\ FLt(phases[k], bin_edges(num_bins, i + 1))}

\* the valid filter without its test of the flux
bin_valid_errors_only(flux, flux_err, mask) ==
    {k \in mask : FGt(flux_err[k], I(0)) /\ isfinite(flux_err[k])}

\* valid = (bin_flux_err > 0) & isfinite(bin_flux_err) & isfinite(bin_flux)
bin_valid(flux, flux_err, mask) ==
    {k \in mask : FGt(flux_err[k], I(0)) /\ isfinite(flux_err[k]) /\ isfinite(flux[k])}

\* weights of 1 / err instead of 1 / err^2
weight_linear(e) == FDiv(I(1), e)

\* weights = 1.0 / bin_flux_err**2
weight(e) == FDiv(I(1), FMul(e, e))

\* np.sum of f[k] over the indices k <= n that are in S
RECURSIVE np_sum(_, _, _)
np_sum(f, S, n) ==
    IF n = 0 THEN I(0)
    ELSE IF n \in S THEN FAdd(np_sum(f, S, n - 1), f[n]) ELSE np_sum(f, S, n - 1)

\* one row [phase_center, weighted_mean, weighted_error] of binned_lc (lines 110-142)
bin_row(phases, flux, flux_err, num_bins, i) ==
    LET mask  == bin_mask(phases, num_bins, i)
        valid == bin_valid(flux, flux_err, mask)
        w     == [k \in DOMAIN flux |-> weight(flux_err[k])]
        fw    == [k \in DOMAIN flux |-> FMul(flux[k], w[k])]
        sw    == np_sum(w, valid, Len(flux))
    IN  IF mask = {} \/ valid = {}
        THEN <<bin_centers(num_bins, i), NaN, SurdNaN>>
        ELSE <<bin_centers(num_bins, i),
               FDiv(np_sum(fw, valid, Len(flux)), sw),
               sqrt(FDiv(I(1), sw))>>

\* binned_lc before normalization: rows 1..num_bins (row i is bin i-1)
binned_rows(phases, flux, flux_err, num_bins) ==
    [i \in 1..num_bins |-> bin_row(phases, flux, flux_err, num_bins, i - 1)]

\* binned_lc[:, 1][np.isfinite(binned_lc[:, 1])]
valid_flux(rows) ==
    LET RECURSIVE pick(_)
        pick(n) == IF n = 0 THEN <<>>
                   ELSE IF isfinite(rows[n][2]) THEN Append(pick(n - 1), rows[n][2])
                   ELSE pick(n - 1)
    IN  pick(Len(rows))

RECURSIVE SeqMax(_, _)
SeqMax(s, k) ==
    IF k = 1 THEN s[1]
    ELSE LET m == SeqMax(s, k - 1) IN IF FGt(s[k], m) THEN s[k] ELSE m
np_max(s) == SeqMax(s, Len(s))

RECURSIVE SeqSum(_, _)
SeqSum(s, k) == IF k = 0 THEN I(0) ELSE FAdd(SeqSum(s, k - 1), s[k])
np_mean(s) == FDiv(SeqSum(s, Len(s)), I(Len(s)))

\* the k-th smallest element of a sequence of finite floats, k = 1..Len(s)
kth(s, k) ==
    LET below(i) == Cardinality({j \in DOMAIN s :
                        FLt(s[j], s[i]) \/ (s[j] = s[i] /\ j < i)})
    IN  s[CHOOSE i \in DOMAIN s : below(i) = k - 1]
\* np.median: the middle element, or the mean of the two middle ones
np_median(s) ==
    LET n == Len(s)
    IN  IF n % 2 = 1 THEN kth(s, (n + 1) \div 2)
        ELSE FDiv(FAdd(kth(s, n \div 2), kth(s, n \div 2 + 1)), I(2))

median_key == <<"m","e","d","i","a","n">>
min_key == <<"m","i","n">>
max_key == <<"m","a","x">>
mean_key == <<"m","e","a","n">>
\* the keys of the norm_methods dict (lines 152-157)
norm_methods == {median_key, min_key, max_key, mean_key}

\* norm_methods[norm_method](valid_flux)
norm_factor(norm_method, vf) ==
    CASE norm_method = median_key -> np_median(vf)
      [] norm_method = min_key    -> np_min(vf)
      [] norm_method = max_key    -> np_max(vf)
      [] norm_method = mean_key   -> np_mean(vf)

\* binned_lc[:, 1] /= norm_factor; binned_lc[:, 2] /= norm_factor
divide_rows(rows, f) ==
    [i \in DOMAIN rows |-> <<rows[i][1], FDiv(rows[i][2], f), SurdDiv(rows[i][3], f)>>]

\* lines 147-166: the rows after normalization, or the exception raised
normalize(rows, normalization) ==
    IF ~Truthy(normalization) THEN [status |-> "ok", rows |-> rows]
    ELSE IF Len(valid_flux(rows)) = 0
    THEN Raise(NoValidData)
    ELSE IF normalization.t # "str"
    THEN Raise(AttributeError)
    ELSE IF lower(normalization.s) \notin norm_methods
    THEN Raise(InvalidNormalization)
    ELSE [status |-> "ok",
          rows |-> divide_rows(rows, norm_factor(lower(normalization.s), valid_flux(rows)))]

\* cycle_prev / cycle_next: a copy with the phase column shifted
shift_rows(rows, k) ==
    [i \in DOMAIN rows |-> <<FAdd(rows[i][1], I(k)), rows[i][2], rows[i][3]>>]

\* replicate without its final else: an unknown cycle count keeps the rows
replicate_unchecked(rows, num_cycles) ==
    IF num_cycles = 2
    THEN [status |-> "ok", rows |-> shift_rows(rows, -1) \o rows]
    ELSE IF num_cycles = 3
    THEN [status |-> "ok", rows |-> shift_rows(rows, -1) \o rows \o shift_rows(rows, 1)]
    ELSE [status |-> "ok", rows |-> rows]

\* replicate stacking the copies the other way round
replicate_reversed(rows, num_cycles) ==
    IF num_cycles = 1 THEN [status |-> "ok", rows |-> rows]
    ELSE IF num_cycles = 2
    THEN [status |-> "ok", rows |-> rows \o shift_rows(rows, -1)]
    ELSE IF num_cycles = 3
    THEN [status |-> "ok", rows |-> shift_rows(rows, 1) \o rows \o shift_rows(rows, -1)]
    ELSE Raise(InvalidCycleCount)

\* lines 169-182: np.vstack of the shifted copies, or the exception raised
replicate(rows, num_cycles) ==
    IF num_cycles = 1 THEN [status |-> "ok", rows |-> rows]
    ELSE IF num_cycles = 2
    THEN [status |-> "ok", rows |-> shift_rows(rows, -1) \o rows]
    ELSE IF num_cycles = 3
    THEN [status |-> "ok", rows |-> shift_rows(rows, -1) \o rows \o shift_rows(rows, 1)]
    ELSE Raise(InvalidCycleCount)

\* the returned dict (lines 185-189)
as_dict(rows) ==
    [status   |-> "ok",
     phase    |-> [i \in DOMAIN rows |-> rows[i][1]],
     flux     |-> [i \in DOMAIN rows |-> rows[i][2]],
     flux_err |-> [i \in DOMAIN rows |-> rows[i][3]]]

bin_phase_folded_data(time, flux, flux_err, period, period_derivative, reference_epoch, num_bins, num_cycles, normalization) ==
    LET fold == phase_fold(time, period, period_derivative, reference_epoch)
        rows == binned_rows(fold.phases, flux, flux_err, num_bins)
        norm == normalize(rows, normalization)
        rep  == replicate(norm.rows, num_cycles)
    IN  IF fold.status # "ok" THEN fold
        ELSE IF norm.status # "ok" THEN norm
        ELSE IF rep.status # "ok" THEN rep
        ELSE as_dict(rep.rows)

----------------------------------------------------------------------------
(* bls: the lazily built period catalog                                    *)

\* COLUMNS rows of the *.result files: gid, per_min, per_day, epo are the
\* columns the reduction reads.  pd.concat(dfs, ignore_index=True): one frame
\* holding every row, per_day as written in the files, a positional index.
\* obj is the identity of the frame object this run of load_catalog creates.
concat(rows, obj) == [obj |-> obj, rows |-> rows, per_day |-> "file", index |-> "range"]

\* df['per_day'] = df['per_min'] / 1440
recompute_per_day(df) ==
    [df EXCEPT !.rows = [i \in DOMAIN df.rows |->
                            [df.rows[i] EXCEPT !.per_day = FDiv(df.rows[i].per_min, I(1440))]],
               !.per_day = "recomputed"]

\* df.set_index('gid', inplace=True)
set_index(df) == [df EXCEPT !.index = "gid"]

load_catalog(rows, obj) == set_index(recompute_per_day(concat(rows, obj)))

\* _catalog is None
NoCatalog == [obj |-> 0, rows |-> <<>>, per_day |-> "none", index |-> "none"]
is_None(cat) == cat.obj = 0

\* the frame built completely: every row, per_day recomputed, indexed by gid
fully_built(df, rows) ==
    /\ Len(df.rows) = Len(rows)
    /\ df.per_day = "recomputed"
    /\ df.index = "gid"

\* source_id in df.index
in_index(df, source_id) ==
    IF df.index = "gid" THEN \E i \in DOMAIN df.rows : df.rows[i].gid = source_id
    ELSE source_id \in 0..(Len(df.rows) - 1)

\* df.loc[source_id]
loc(df, source_id) ==
    IF df.index = "gid" THEN df.rows[CHOOSE i \in DOMAIN df.rows : df.rows[i].gid = source_id]
    ELSE df.rows[source_id + 1]

NoRow == [gid |-> -1, per_min |-> NaN, per_day |-> NaN, epo |-> NaN]

\* get_bls_stats on the catalog get_catalog returned: the row, or None (NoRow)
get_bls_stats(df, source_id) ==
    IF in_index(df, source_id) THEN loc(df, source_id) ELSE NoRow

\* get_period on the catalog get_catalog returned: per_min, or None (NaN)
get_period(df, source_id) ==
    IF in_index(df, source_id) THEN loc(df, source_id).per_min ELSE NaN

\* get_catalog run without interruption: the value of _catalog afterwards
get_catalog(cat, rows, obj) == IF is_None(cat) THEN load_catalog(rows, obj) ELSE cat

----------------------------------------------------------------------------
(* Inputs of the binner                                                    *)

MaxObs == 2        \* longest observation series
MaxBins == 2       \* largest num_bins
MaxCycles == 4     \* the num_cycles tried above the supported 1, 2, 3

\* observations (time, flux, flux_err): valid ones, a zero flux, a NaN flux,
\* a zero error
ObsSet ==
    { [time |-> I(0), flux |-> I(2),  flux_err |-> I(1)],
      [time |-> I(1), flux |-> I(-2), flux_err |-> I(1)],
      [time |-> I(1), flux |-> I(0),  flux_err |-> I(2)],
      [time |-> I(2), flux |-> NaN,   flux_err |-> I(1)],
      [time |-> I(3), flux |-> I(4),  flux_err |-> I(0)] }

\* a series lists its observations in time order, as the light-curve files do
Series ==
    {s \in UNION {[1..n -> ObsSet] : n \in 0..MaxObs} :
        \A i \in DOMAIN s : \A j \in DOMAIN s : i < j => ~FLt(s[j].time, s[i].time)}

\* period: a Python number or a numpy float64, positive, zero or negative
Periods ==
    { [v |-> I(1),  np |-> FALSE], [v |-> I(2),  np |-> TRUE],
      [v |-> I(0),  np |-> FALSE], [v |-> I(0),  np |-> TRUE],
      [v |-> I(-1), np |-> FALSE] }

Epochs == {None, Some(I(0)), Some(I(1))}

Normalizations ==
    { PyFalse, PyTrue,
      Str(median_key), Str(<<"M","I","N">>), Str(max_key), Str(<<"M","e","a","n">>),
      Str(<<"b","o","g","u","s">>) }

Pending == [status |-> "pending"]

BinArgs ==
    [obs : Series, period : Periods, period_derivative : {I(0), Q(1, 2)},
     reference_epoch : Epochs, num_bins : 1..MaxBins, num_cycles : {0, 1, 2, 3, MaxCycles},
     normalization : Normalizations]

col(obs, f) == [k \in DOMAIN obs |-> obs[k][f]]

\* the reduce and catalog parts of the state, at rest
IdleReduce ==
    /\ world = [files |-> <<>>, bls |-> <<>>]
    /\ rargs = [variant |-> "none"]
    /\ todo = <<>>
    /\ out = <<>>
    /\ raised = "none"
    /\ bin_log = <<>>
IdleCatalog ==
    /\ _catalog = NoCatalog
    /\ pc = <<>>
    /\ local = <<>>
    /\ loads = 0

InitBin ==
    /\ args \in BinArgs
    /\ result = Pending
    /\ IdleReduce
    /\ IdleCatalog

\* a caller folds the series: phase_fold(time, period, period_derivative, reference_epoch)
CallFold ==
    /\ result.status = "pending"
    /\ result' = [op |-> "fold"] @@
                 phase_fold(col(args.obs, "time"), args.period,
                            args.period_derivative, args.reference_epoch)
    /\ UNCHANGED <<args, world, rargs, todo, out, raised, bin_log, _catalog, pc, local, loads>>

\* a caller bins the series: bin_phase_folded_data(...)
CallBin ==
    /\ result.status = "pending"
    /\ result' = [op |-> "bin"] @@
                 bin_phase_folded_data(
                     col(args.obs, "time"), col(args.obs, "flux"), col(args.obs, "flux_err"),
                     args.period, args.period_derivative, args.reference_epoch,
                     args.num_bins, args.num_cycles, args.normalization)
    /\ UNCHANGED <<args, world, rargs, todo, out, raised, bin_log, _catalog, pc, local, loads>>

NextBin == CallFold \/ CallBin

SpecBin == InitBin /\ [][NextBin]_vars

\* the same two calls on series that try the valid filter and the half-open
\* bins: errors that are zero, negative, NaN or infinite, fluxes that are NaN
\* or infinite, two valid observations of one time with unequal errors, two
\* with equal errors
EdgeObs ==
    { [time |-> I(0), flux |-> I(2), flux_err |-> I(1)],
      [time |-> I(0), flux |-> I(4), flux_err |-> I(2)],
      [time |-> I(1), flux |-> I(6), flux_err |-> I(1)],
      [time |-> I(0), flux |-> I(1), flux_err |-> I(0)],
      [time |-> I(1), flux |-> I(1), flux_err |-> I(-1)],
      [time |-> I(1), flux |-> I(1), flux_err |-> NaN],
      [time |-> I(1), flux |-> I(1), flux_err |-> PosInf],
      [time |-> I(1), flux |-> NaN, flux_err |-> I(1)],
      [time |-> I(1), flux |-> PosInf, flux_err |-> I(1)] }

EdgeSeries ==
    {s \in UNION {[1..n -> EdgeObs] : n \in 0..MaxObs} :
        \A i \in DOMAIN s : \A j \in DOMAIN s : i < j => ~FLt(s[j].time, s[i].time)}

\* a time span too short to survive the float addition period - Tiny
Tiny == Q(1, Pow2(MantBits + 2))

\* a reference epoch before, at, just after and well after the first time
EdgeEpochs == {None, Some(I(0)), Some(Tiny), Some(I(1))}

EdgePeriods ==
    { [v |-> I(1), np |-> FALSE], [v |-> I(2), np |-> TRUE], [v |-> I(0), np |-> TRUE] }

EdgeArgs ==
    [obs : EdgeSeries, period : EdgePeriods, period_derivative : {I(0), Q(1, 2)},
     reference_epoch : EdgeEpochs, num_bins : 1..MaxBins, num_cycles : {1},
     normalization : {PyFalse}]

InitEdge ==
    /\ args \in EdgeArgs
    /\ result = Pending
    /\ IdleReduce
    /\ IdleCatalog

SpecEdge == InitEdge /\ [][NextBin]_vars

----------------------------------------------------------------------------
(* io: read_lightcurve and read_bin_lightcurve, in both copies of io.py     *)

ReturnNone == [status |-> "None"]

\* a light-curve file: "missing", or its rows (mjd, ujy, dujy, filter); a file
\* holding no row makes pd.read_csv raise EmptyDataError
Missing == [exists |-> FALSE, rows |-> <<>>]
File(rows) == [exists |-> TRUE, rows |-> rows]

\* bjd_convert is astropy's barycentric correction: an external computation,
\* kept as a fixed light-travel-time shift (order preserving, never zero)
bjd_convert(t) == FAdd(t, Q(1, 288))

\* lines 30-46: mid-exposure time (15 s after the start), BJD, the columns
lc_columns(rows) ==
    [status   |-> "ok",
     time     |-> [k \in DOMAIN rows |-> bjd_convert(FAdd(rows[k].mjd, Q(15, 86400)))],
     flux     |-> [k \in DOMAIN rows |-> rows[k].ujy],
     flux_err |-> [k \in DOMAIN rows |-> rows[k].dujy],
     filter   |-> [k \in DOMAIN rows |-> rows[k].filter]]

\* io.py: pd.read_csv is not guarded
read_lightcurve(file) ==
    IF ~file.exists THEN Raise("FileNotFoundError")
    ELSE IF Len(file.rows) = 0 THEN Raise("EmptyDataError")
    ELSE lc_columns(file.rows)

\* .ipynb_checkpoints/io-checkpoint.py: except (FileNotFoundError, EmptyDataError): return None
read_lightcurve_checkpoint(file) ==
    IF ~file.exists \/ Len(file.rows) = 0 THEN ReturnNone
    ELSE lc_columns(file.rows)

\* array[mask]: the elements whose filter is the band, in order
RECURSIVE select(_, _, _, _)
select(arr, filter, band, n) ==
    IF n = 0 THEN <<>>
    ELSE IF filter[n] = band THEN Append(select(arr, filter, band, n - 1), arr[n])
    ELSE select(arr, filter, band, n - 1)

\* what one band's call of the binner was given, and the epoch its fold used
NotCalled == [called |-> FALSE, period |-> [v |-> NaN, np |-> FALSE],
              reference_epoch |-> None, fold_epoch |-> None]
call_log(time, period, reference_epoch) ==
    LET fold == phase_fold(time, period, I(0), reference_epoch)
    IN  [called |-> TRUE, period |-> [v |-> period.v, np |-> period.np],
         reference_epoch |-> reference_epoch,
         fold_epoch |-> IF fold.status = "ok" THEN Some(fold.epoch) ELSE None]

\* a catalog cell as a call argument: a numpy float64
np_float(x) == [none |-> FALSE, v |-> x, np |-> TRUE]

\* io.py read_bin_lightcurve(source_id, num_bins, num_cycles, normalization):
\* [ret, log]; cat is the catalog get_bls_stats obtained from get_catalog
read_bin_lightcurve(file, cat, source_id, a) ==
    LET lc_data  == read_lightcurve(file)
        bls_data == get_bls_stats(cat, source_id)
    IN  IF lc_data.status # "ok"
        THEN [ret |-> lc_data, asked |-> FALSE, c |-> NotCalled, o |-> NotCalled]
        ELSE IF bls_data = NoRow
        THEN [ret |-> ReturnNone, asked |-> TRUE, c |-> NotCalled, o |-> NotCalled]
        ELSE [ret |-> [bands |-> "all"] @@
                      bin_phase_folded_data(lc_data.time, lc_data.flux, lc_data.flux_err,
                          np_float(bls_data.per_day), I(0), Some(bls_data.epo),
                          a.num_bins, a.num_cycles, a.normalization),
              asked |-> TRUE,
              c |-> call_log(lc_data.time, np_float(bls_data.per_day), Some(bls_data.epo)),
              o |-> NotCalled]

\* io-checkpoint.py read_bin_lightcurve(source_id, num_bins, num_cycles,
\* normalization, period, reference_epoch): [ret, log]
read_bin_lightcurve_checkpoint(file, cat, source_id, a) ==
    LET lc_data  == read_lightcurve_checkpoint(file)
        bls_data == get_bls_stats(cat, source_id)
        period   == IF bls_data # NoRow THEN np_float(bls_data.per_day) ELSE a.period
        reference_epoch == IF bls_data # NoRow THEN Some(bls_data.epo) ELSE a.reference_epoch
        band(b, f) == select(lc_data[f], lc_data.filter, b, Len(lc_data.filter))
        binned(b) == bin_phase_folded_data(band(b, "time"), band(b, "flux"), band(b, "flux_err"),
                         period, I(0), reference_epoch,
                         a.num_bins, a.num_cycles, a.normalization)
    IN  IF lc_data.status # "ok"
        THEN [ret |-> ReturnNone, asked |-> FALSE, c |-> NotCalled, o |-> NotCalled]
        ELSE IF bls_data = NoRow /\ a.period.none
        THEN [ret |-> ReturnNone, asked |-> TRUE, c |-> NotCalled, o |-> NotCalled]
        ELSE IF binned("c").status # "ok"
        THEN [ret |-> binned("c"), asked |-> TRUE,
              c |-> call_log(band("c", "time"), period, reference_epoch), o |-> NotCalled]
        ELSE IF binned("o").status # "ok"
        THEN [ret |-> binned("o"), asked |-> TRUE,
              c |-> call_log(band("c", "time"), period, reference_epoch),
              o |-> call_log(band("o", "time"), period, reference_epoch)]
        ELSE [ret |-> [status |-> "ok", bands |-> "c,o", c |-> binned("c"), o |-> binned("o")],
              asked |-> TRUE,
              c |-> call_log(band("c", "time"), period, reference_epoch),
              o |-> call_log(band("o", "time"), period, reference_epoch)]

----------------------------------------------------------------------------
(* A bulk sweep: read_bin_lightcurve called for one source after another   *)

NSources == 2      \* sources of a sweep

Sources == 1..NSources

Row(gid, per_min, per_day, epo) ==
    [gid |-> gid, per_min |-> per_min, per_day |-> per_day, epo |-> epo]

\* the row the result files hold for a source, if any: per_day is written
\* with fewer digits than per_min / 1440 has
Entries(gid) ==
    { Row(gid, I(2880), Q(19999, 10000), I(1)),
      Row(gid, I(1440), Q(9999, 10000), I(0)) }
NoEntry == NoRow

\* the result files always hold the row of some other source (gid 0)
RECURSIVE bls_rows(_, _)
bls_rows(entry, n) ==
    IF n = 0 THEN <<Row(0, I(720), Q(4999, 10000), I(0))>>
    ELSE IF entry[n] = NoEntry THEN bls_rows(entry, n - 1)
    ELSE Append(bls_rows(entry, n - 1), entry[n])

Obs(mjd, ujy, dujy, filter) == [mjd |-> mjd, ujy |-> ujy, dujy |-> dujy, filter |-> filter]

\* light-curve files: both bands, only 'o', only 'c', no row at all, no file
Files ==
    { File(<<Obs(I(0), I(2), I(1), "c"), Obs(I(1), I(-2), I(1), "o")>>),
      File(<<Obs(I(1), I(-2), I(1), "o")>>),
      File(<<Obs(I(0), I(2), I(1), "c")>>),
      File(<<>>),
      Missing }

NoPeriod == [none |-> TRUE, v |-> NaN, np |-> FALSE]
PyPeriod(x) == [none |-> FALSE, v |-> x, np |-> FALSE]

\* io.py's read_bin_lightcurve has no period / reference_epoch parameters
ReduceArgs ==
    [variant : {"io"}, num_bins : 1..MaxBins, num_cycles : 1..3,
     normalization : Normalizations, period : {NoPeriod}, reference_epoch : {None}]
    \cup
    [variant : {"checkpoint"}, num_bins : 1..MaxBins, num_cycles : 1..3,
     normalization : Normalizations, period : {NoPeriod, PyPeriod(I(1))},
     reference_epoch : {None, Some(I(0))}]

IdleBin ==
    /\ args = [obs |-> <<>>]
    /\ result = Pending

InitReduce ==
    /\ \E files \in [Sources -> Files] :
       \E entry \in [Sources -> UNION {Entries(g) : g \in Sources} \cup {NoEntry}] :
          /\ \A g \in Sources : entry[g] = NoEntry \/ entry[g].gid = g
          /\ world = [files |-> files, bls |-> bls_rows(entry, NSources)]
    /\ rargs \in ReduceArgs
    /\ todo = [i \in Sources |-> i]
    /\ out = <<>>
    /\ raised = "none"
    /\ bin_log = <<>>
    /\ IdleBin
    /\ IdleCatalog

\* one iteration of the sweep: r is what read_bin_lightcurve did for the
\* first source still to do; an exception ends the sweep
Sweep(r) ==
    /\ bin_log' = Append(bin_log, [source |-> Head(todo), asked |-> r.asked,
                                   c |-> r.c, o |-> r.o])
    /\ IF r.asked
       THEN /\ _catalog' = get_catalog(_catalog, world.bls, loads + 1)
            /\ loads' = IF is_None(_catalog) THEN loads + 1 ELSE loads
       ELSE UNCHANGED <<_catalog, loads>>
    /\ IF r.ret.status = "raise"
       THEN /\ raised' = r.ret.error
            /\ UNCHANGED <<todo, out>>
       ELSE /\ out' = Append(out, [source |-> Head(todo), ret |-> r.ret])
            /\ todo' = Tail(todo)
            /\ UNCHANGED raised
    /\ UNCHANGED <<args, result, world, rargs, pc, local>>

\* io.py
Reduce ==
    /\ rargs.variant = "io"
    /\ todo # <<>>
    /\ raised = "none"
    /\ Sweep(read_bin_lightcurve(world.files[Head(todo)],
                 get_catalog(_catalog, world.bls, loads + 1), Head(todo), rargs))

\* .ipynb_checkpoints/io-checkpoint.py
ReduceCheckpoint ==
    /\ rargs.variant = "checkpoint"
    /\ todo # <<>>
    /\ raised = "none"
    /\ Sweep(read_bin_lightcurve_checkpoint(world.files[Head(todo)],
                 get_catalog(_catalog, world.bls, loads + 1), Head(todo), rargs))

NextReduce == Reduce \/ ReduceCheckpoint

SpecReduce == InitReduce /\ [][NextReduce]_vars

----------------------------------------------------------------------------
(* Claims about the reduction (SpecReduce)                                 *)

has_entry(g) == \E i \in DOMAIN world.bls : world.bls[i].gid = g
readable(g) == world.files[g].exists /\ Len(world.files[g].rows) > 0
band_empty(g, b) ==
    \A k \in DOMAIN world.files[g].rows : world.files[g].rows[k].filter # b

\* C1: when the caller passes an explicit period and reference_epoch, every
\* band that is binned is binned with exactly those values, whether or not
\* the catalog has an entry for the source.
C1_ExplicitPeriodWins ==
    (~rargs.period.none /\ ~rargs.reference_epoch.none) =>
        \A i \in DOMAIN bin_log : \A b \in {"c", "o"} :
            bin_log[i][b].called =>
                /\ bin_log[i][b].period.v = rargs.period.v
                /\ bin_log[i][b].reference_epoch = rargs.reference_epoch

\* the missing-data cases of C2: (a) no light-curve file; (b) a readable file,
\* no explicit period and no catalog entry
missing_data(g) ==
    \/ ~world.files[g].exists
    \/ readable(g) /\ rargs.period.none /\ ~has_entry(g)

\* C2: in both missing-data cases read_bin_lightcurve returns None and raises
\* nothing, so a missing source never ends a sweep before the sources after it.
C2_MissingDataYieldsNone ==
    /\ \A i \in DOMAIN out : missing_data(out[i].source) => out[i].ret.status = "None"
    /\ raised # "none" => ~missing_data(Head(todo))

\* the normalization settings C3 ranges over: False, or a recognized key
recognized(n) == ~Truthy(n) \/ (n.t = "str" /\ lower(n.s) \in norm_methods)
all_nan_curve(curve, n) ==
    /\ Len(curve.phase) = n /\ Len(curve.flux) = n /\ Len(curve.flux_err) = n
    /\ \A k \in 1..n : isnan(curve.flux[k]) /\ SurdIsNaN(curve.flux_err[k])
has_period(g) == has_entry(g) \/ ~rargs.period.none

\* C3: for a readable source that has a period, the band-splitting reduction
\* returns both bands, and a band with zero observations is a NaN-filled curve
\* of length num_bins * num_cycles, for every recognized normalization setting
\* and with or without a reference epoch; it never fails.
C3_EmptyBandIsNaNCurve ==
    (rargs.variant = "checkpoint" /\ recognized(rargs.normalization)) =>
        /\ \A i \in DOMAIN out :
              (readable(out[i].source) /\ has_period(out[i].source)) =>
                  /\ out[i].ret.status = "ok"
                  /\ \A b \in {"c", "o"} :
                        band_empty(out[i].source, b) =>
                            all_nan_curve(out[i].ret[b], rargs.num_bins * rargs.num_cycles)
        /\ raised # "none" => ~(readable(Head(todo)) /\ has_period(Head(todo)))

\* C4: within one call both bands are folded with the same reference epoch.
C4_SameEpochAcrossBands ==
    \A i \in DOMAIN bin_log :
        (bin_log[i].c.called /\ bin_log[i].o.called
            /\ ~bin_log[i].c.fold_epoch.none /\ ~bin_log[i].o.fold_epoch.none) =>
                bin_log[i].c.fold_epoch = bin_log[i].o.fold_epoch

----------------------------------------------------------------------------
(* Claims about fold and bin (SpecBin)                                     *)

called(op) == result.status # "pending" /\ result.op = op

\* the fold of the call's inputs raises nothing: a reference epoch or at
\* least one observation, and no Python-scalar zero period
fold_succeeds ==
    /\ ~(args.reference_epoch.none /\ Len(args.obs) = 0)
    /\ ~(~args.period.np /\ args.period.v = I(0))

\* binned_lc of the call before normalization and replication
raw_rows ==
    binned_rows(phase_fold(col(args.obs, "time"), args.period, args.period_derivative,
                           args.reference_epoch).phases,
                col(args.obs, "flux"), col(args.obs, "flux_err"), args.num_bins)

\* C5: fold and bin called with period <= 0 fail (InvalidPeriod) and return
\* no phases and no binned curve.  The code defines no InvalidPeriod error, so
\* only the failing is stated, for a series that is not empty.
C5_NonPositivePeriodFails ==
    (result.status # "pending" /\ Len(args.obs) > 0 /\ ~FGt(args.period.v, I(0))) =>
        result.status = "raise"

\* C6 as stated: bin with num_cycles outside {1, 2, 3} always fails with
\* InvalidCycleCount, whatever the observations and the normalization are.
C6_AlwaysInvalidCycleCount ==
    (called("bin") /\ args.num_cycles \notin {1, 2, 3}) =>
        (result.status = "raise" /\ result.error = InvalidCycleCount)

\* C6 amended: bin with num_cycles outside {1, 2, 3} always fails and never
\* returns a curve.  The error is InvalidCycleCount whenever the fold succeeds
\* and no normalization is requested; otherwise it is InvalidCycleCount or the
\* error of an earlier step: the fold's (ZeroSizeMin, ZeroDivisionError), or,
\* with a truthy normalization, NoValidData, AttributeError or
\* InvalidNormalization, which are raised before the cycle count is looked at.
C6_BadCycleCountFails ==
    (called("bin") /\ args.num_cycles \notin {1, 2, 3}) =>
        /\ result.status = "raise"
        /\ (fold_succeeds /\ ~Truthy(args.normalization)) => result.error = InvalidCycleCount
        /\ result.error # InvalidCycleCount =>
              \/ ~fold_succeeds /\ result.error \in {ZeroSizeMin, ZeroDivisionError}
              \/ /\ Truthy(args.normalization)
                 /\ result.error \in {NoValidData, AttributeError, InvalidNormalization}

\* C6 witness: a bad cycle count met after a normalization that went through
C6_Witness ==
    /\ called("bin") /\ args.num_cycles = MaxCycles
    /\ args.normalization = Str(median_key)
    /\ Len(valid_flux(raw_rows)) > 0
    /\ result.status = "raise" /\ result.error = InvalidCycleCount

\* a call whose other arguments are well formed: a positive period, a cycle
\* count of 1, 2 or 3, and a fold that succeeds
well_formed ==
    FGt(args.period.v, I(0)) /\ args.num_cycles \in {1, 2, 3} /\ fold_succeeds

\* C7: bin with a truthy normalization that is not one of median/min/max/mean
\* (case-insensitively) fails with InvalidNormalization for every otherwise
\* well-formed input, also when no bin has a finite flux and for a truthy
\* non-string such as True; a recognized key in any letter case is accepted.
C7_UnrecognizedNormalizationFails ==
    (called("bin") /\ well_formed /\ Truthy(args.normalization)) =>
        IF recognized(args.normalization)
        THEN result.status = "raise" => result.error # InvalidNormalization
        ELSE result.status = "raise" /\ result.error = InvalidNormalization

\* C8: when normalization is requested and the factor is zero or non-finite,
\* bin fails instead of dividing; so a returned normalized curve never holds a
\* NaN or infinite flux in a bin whose weighted flux was finite.
C8_NoDivisionByZeroFactor ==
    (called("bin") /\ well_formed /\ result.status = "ok" /\ Truthy(args.normalization)) =>
        /\ LET f == norm_factor(lower(args.normalization.s), valid_flux(raw_rows))
           IN  isfinite(f) /\ f # I(0)
        /\ LET raw == raw_rows
           IN  \A k \in DOMAIN result.flux :
                  isfinite(raw[((k - 1) % args.num_bins) + 1][2]) => isfinite(result.flux[k])


\* the same call with num_cycles = 1
one_cycle ==
    bin_phase_folded_data(
        col(args.obs, "time"), col(args.obs, "flux"), col(args.obs, "flux_err"),
        args.period, args.period_derivative, args.reference_epoch,
        args.num_bins, 1, args.normalization)

\* block b (0, 1, 2) of a replicated curve equals the one-cycle curve with its
\* phase shifted by k
block_is(curve, b, one, k) ==
    \A i \in 1..args.num_bins :
        /\ curve.phase[b * args.num_bins + i] = FAdd(one.phase[i], I(k))
        /\ curve.flux[b * args.num_bins + i] = one.flux[i]
        /\ curve.flux_err[b * args.num_bins + i] = one.flux_err[i]

\* C10: cycle replication only copies and shifts phase.  The num_cycles = 3
\* output is three blocks of num_bins entries, shifts -1, 0, +1 in that order,
\* the middle one equal to the num_cycles = 1 output and the outer ones equal
\* to it but for the phase, moved by exactly 1; the num_cycles = 2 output is
\* the -1 block followed by the 0 block; the values replicated are the
\* normalized ones.
C10_ReplicationCopiesAndShifts ==
    (called("bin") /\ result.status = "ok") =>
        LET one == one_cycle
        IN  /\ one.status = "ok"
            /\ Len(one.phase) = args.num_bins
            /\ Len(result.phase) = args.num_bins * args.num_cycles
            /\ Len(result.flux) = args.num_bins * args.num_cycles
            /\ Len(result.flux_err) = args.num_bins * args.num_cycles
            /\ args.num_cycles = 1 => block_is(result, 0, one, 0)
            /\ args.num_cycles = 2 =>
                  block_is(result, 0, one, -1) /\ block_is(result, 1, one, 0)
            /\ args.num_cycles = 3 =>
                  /\ block_is(result, 0, one, -1)
                  /\ block_is(result, 1, one, 0)
                  /\ block_is(result, 2, one, 1)

\* C10 witness: a normalized three-cycle curve of two bins, one finite and
\* one NaN, whose normalized flux differs from the weighted mean
C10_Witness ==
    /\ called("bin") /\ result.status = "ok"
    /\ args.num_cycles = 3 /\ args.num_bins = 2
    /\ Truthy(args.normalization)
    /\ LET raw == raw_rows
       IN  \E i, j \in 1..2 :
              /\ isfinite(result.flux[2 + i]) /\ result.flux[2 + i] # raw[i][2]
              /\ isnan(result.flux[2 + j])

----------------------------------------------------------------------------
(* Claims about the bins and the fold at their edges (SpecEdge)            *)

\* the phases the call's fold gives the observations
call_phases ==
    phase_fold(col(args.obs, "time"), args.period, args.period_derivative,
               args.reference_epoch).phases

\* i/n <= p < (i + 1)/n for a float p
in_interval(p, i, n) ==
    isfinite(p) /\ i * p[2] <= p[1] * n /\ p[1] * n < (i + 1) * p[2]

\* the valid filter as the design words it: error > 0 and finite, flux finite
passes_filter(o) ==
    isfinite(o.flux_err) /\ o.flux_err[1] > 0 /\ isfinite(o.flux)

\* the valid observations with phase in [i/num_bins, (i + 1)/num_bins)
valid_in_bin(ph, i) ==
    {k \in DOMAIN args.obs :
        in_interval(ph[k], i, args.num_bins) /\ passes_filter(args.obs[k])}

RECURSIVE sums(_, _)
sums(obs, V) ==
    IF V = {} THEN <<I(0), I(0), I(0)>>
    ELSE LET k    == CHOOSE k \in V : TRUE
             rest == sums(obs, V \ {k})
             e2   == FMul(obs[k].flux_err, obs[k].flux_err)
         IN  <<FAdd(rest[1], FDiv(obs[k].flux, e2)),
               FAdd(rest[2], FDiv(I(1), e2)),
               FAdd(rest[3], obs[k].flux)>>

equal_errors(obs, V) == \A k \in V : \A l \in V : obs[k].flux_err = obs[l].flux_err

\* C12: without normalization, every returned bin with at least one valid
\* observation has flux sum(f_i / e_i^2) / sum(1 / e_i^2) and flux_err
\* sqrt(1 / sum(1 / e_i^2)), i over exactly the valid observations of the bin;
\* with equal errors the flux is the unweighted mean of the valid fluxes.
C12_WeightedMean ==
    (called("bin") /\ result.status = "ok" /\ ~Truthy(args.normalization)) =>
        LET ph == call_phases
        IN  \A k \in DOMAIN result.flux :
               LET V == valid_in_bin(ph, (k - 1) % args.num_bins)
                   s == sums(args.obs, V)
               IN  V # {} =>
                      /\ result.flux[k] = FDiv(s[1], s[2])
                      /\ result.flux_err[k] = <<1, FDiv(I(1), s[2])>>
                      /\ equal_errors(args.obs, V) =>
                            result.flux[k] = FDiv(s[3], I(Cardinality(V)))

\* C12 witness: a bin of two valid observations with unequal errors, whose
\* flux is not their unweighted mean
C12_Witness ==
    /\ called("bin") /\ result.status = "ok" /\ ~Truthy(args.normalization)
    /\ LET ph == call_phases
       IN  \E k \in DOMAIN result.flux :
              LET V == valid_in_bin(ph, (k - 1) % args.num_bins)
              IN  /\ Cardinality(V) = 2 /\ ~equal_errors(args.obs, V)
                  /\ isfinite(result.flux[k])
                  /\ result.flux[k] # FDiv(sums(args.obs, V)[3], I(2))

\* 0 <= p < 1 for a float p
in_unit_interval(p) == isfinite(p) /\ 0 <= p[1] /\ p[1] < p[2]

\* C13: for every period > 0, every period_derivative and every time, fold
\* returns a phase p with 0 <= p < 1; the phase of a time equal to the
\* reference epoch is exactly 0; with no reference_epoch the minimum of the
\* times is the epoch, so the earliest observation has phase 0.
C13_PhaseInUnitInterval ==
    (called("fold") /\ result.status = "ok" /\ FGt(args.period.v, I(0))) =>
        /\ \A k \in DOMAIN result.phases :
              /\ in_unit_interval(result.phases[k])
              /\ args.obs[k].time = result.epoch => result.phases[k] = I(0)
        /\ (args.reference_epoch.none /\ Len(args.obs) > 0) =>
              /\ \A k \in DOMAIN args.obs : ~FLt(args.obs[k].time, result.epoch)
              /\ \E k \in DOMAIN args.obs :
                    args.obs[k].time = result.epoch /\ result.phases[k] = I(0)

\* the part of C13 that the code keeps: the phase is in the closed interval
\* [0, 1], it is never negative, and the epoch itself has phase 0
PhaseInClosedUnitInterval ==
    (called("fold") /\ result.status = "ok" /\ FGt(args.period.v, I(0))) =>
        \A k \in DOMAIN result.phases :
            /\ in_unit_interval(result.phases[k]) \/ result.phases[k] = I(1)
            /\ args.obs[k].time = result.epoch => result.phases[k] = I(0)

\* C14: the bins partition the observations.  An observation whose phase is
\* in [0, 1) is selected by the mask of exactly one bin, and an observation
\* whose phase is not in [0, 1) (1.0, NaN) by the mask of no bin.
C14_BinsPartition ==
    (called("bin") /\ fold_succeeds) =>
        LET ph == call_phases
        IN  \A k \in DOMAIN ph :
               Cardinality({i \in 0..(args.num_bins - 1) :
                               k \in bin_mask(ph, args.num_bins, i)})
                   = IF in_unit_interval(ph[k]) THEN 1 ELSE 0

\* C14 witness: two bins, an observation just before the reference epoch,
\* whose phase is exactly 1.0 and which no bin takes, and a later one with a
\* phase below 1, which the second bin takes and the first does not
C14_Witness ==
    /\ called("bin") /\ fold_succeeds /\ args.num_bins = 2
    /\ LET ph == call_phases
       IN  \E k, l \in DOMAIN ph :
              /\ in_unit_interval(ph[k])
              /\ k \in bin_mask(ph, 2, 1) /\ k \notin bin_mask(ph, 2, 0)
              /\ ph[l] = I(1) /\ l \notin bin_mask(ph, 2, 0) \cup bin_mask(ph, 2, 1)

----------------------------------------------------------------------------
(* Concurrent readers of the catalog                                       *)

NThreads == 2      \* threads calling into bls.py

Threads == 1..NThreads

CatalogOps == {"get_catalog", "get_bls_stats", "get_period"}

NoLocal == [op |-> "none", source |-> 0, df |-> NoCatalog, got |-> NoCatalog,
            ret |-> NoRow]

InitCatalog ==
    /\ \E entry \in [Sources -> UNION {Entries(g) : g \in Sources} \cup {NoEntry}] :
          /\ \A g \in Sources : entry[g] = NoEntry \/ entry[g].gid = g
          /\ world = [files |-> <<>>, bls |-> bls_rows(entry, NSources)]
    /\ _catalog = NoCatalog
    /\ pc = [t \in Threads |-> "start"]
    /\ local = [t \in Threads |-> NoLocal]
    /\ loads = 0
    /\ rargs = [variant |-> "none"]
    /\ todo = <<>>
    /\ out = <<>>
    /\ raised = "none"
    /\ bin_log = <<>>
    /\ IdleBin

CatalogUnchanged == UNCHANGED <<args, result, world, rargs, todo, out, raised, bin_log>>

\* a thread calls get_catalog, get_bls_stats(source_id) or get_period(source_id)
Call(t) ==
    /\ pc[t] = "start"
    /\ \E op \in CatalogOps : \E g \in 0..NSources :
          local' = [local EXCEPT ![t] = [NoLocal EXCEPT !.op = op, !.source = g]]
    /\ pc' = [pc EXCEPT ![t] = "check"]
    /\ UNCHANGED <<_catalog, loads>>
    /\ CatalogUnchanged

\* get_catalog: if _catalog is None
Check(t) ==
    /\ pc[t] = "check"
    /\ pc' = [pc EXCEPT ![t] = IF is_None(_catalog) THEN "concat" ELSE "return"]
    /\ UNCHANGED <<_catalog, local, loads>>
    /\ CatalogUnchanged

\* load_catalog: the result files are read and concatenated
Concat(t) ==
    /\ pc[t] = "concat"
    /\ local' = [local EXCEPT ![t].df = concat(world.bls, loads + 1)]
    /\ loads' = loads + 1
    /\ pc' = [pc EXCEPT ![t] = "per_day"]
    /\ UNCHANGED _catalog
    /\ CatalogUnchanged

\* load_catalog: per_day is recomputed
PerDay(t) ==
    /\ pc[t] = "per_day"
    /\ local' = [local EXCEPT ![t].df = recompute_per_day(local[t].df)]
    /\ pc' = [pc EXCEPT ![t] = "set_index"]
    /\ UNCHANGED <<_catalog, loads>>
    /\ CatalogUnchanged

\* load_catalog: the frame is indexed by gid and returned
SetIndex(t) ==
    /\ pc[t] = "set_index"
    /\ local' = [local EXCEPT ![t].df = set_index(local[t].df)]
    /\ pc' = [pc EXCEPT ![t] = "store"]
    /\ UNCHANGED <<_catalog, loads>>
    /\ CatalogUnchanged

\* get_catalog: _catalog = load_catalog()
Store(t) ==
    /\ pc[t] = "store"
    /\ _catalog' = local[t].df
    /\ pc' = [pc EXCEPT ![t] = "return"]
    /\ UNCHANGED <<local, loads>>
    /\ CatalogUnchanged

\* get_catalog: return _catalog
Return(t) ==
    /\ pc[t] = "return"
    /\ local' = [local EXCEPT ![t].got = _catalog]
    /\ pc' = [pc EXCEPT ![t] = IF local[t].op = "get_catalog" THEN "done" ELSE "lookup"]
    /\ UNCHANGED <<_catalog, loads>>
    /\ CatalogUnchanged

\* get_bls_stats / get_period: the lookup in the frame get_catalog returned
Lookup(t) ==
    /\ pc[t] = "lookup"
    /\ local' = [local EXCEPT ![t].ret =
                    IF local[t].op = "get_bls_stats"
                    THEN get_bls_stats(local[t].got, local[t].source)
                    ELSE [NoRow EXCEPT !.per_min = get_period(local[t].got, local[t].source)]]
    /\ pc' = [pc EXCEPT ![t] = "done"]
    /\ UNCHANGED <<_catalog, loads>>
    /\ CatalogUnchanged

NextCatalog ==
    \E t \in Threads :
        \/ Call(t) \/ Check(t) \/ Concat(t) \/ PerDay(t) \/ SetIndex(t)
        \/ Store(t) \/ Return(t) \/ Lookup(t)

SpecCatalog == InitCatalog /\ [][NextCatalog]_vars

received(t) == pc[t] \in {"lookup", "done"}

\* C9: under any interleaving of concurrent callers the catalog is built
\* (load_catalog run) at most once, every caller receives that same catalog,
\* and no caller receives a partially populated one.
C9_BuiltOnceAndShared ==
    /\ loads <= 1
    /\ \A t, u \in Threads : (received(t) /\ received(u)) => local[t].got.obj = local[u].got.obj
    /\ \A t \in Threads : received(t) => fully_built(local[t].got, world.bls)

\* the part of C9 that the code keeps: _catalog and what callers receive is
\* never a partially built frame
NoPartialCatalog ==
    /\ is_None(_catalog) \/ fully_built(_catalog, world.bls)
    /\ \A t \in Threads : received(t) => fully_built(local[t].got, world.bls)

============================================================================
